---- MODULE Spec2Model ----
\* niklas88/imgtest: the FloatImg buffer (package floatimage) and the
\* Horn-Schunck optic flow solver (package algorithms) with its band workers.
EXTENDS Integers, Sequences, FiniteSets, TLC

\* ------------------------------------------------------------------ bounds

\* Width and height of the decoded images (the buffers add a 1-cell border).
ImgW == 2
ImgH == 2
\* Gray levels of the decoded images are 4*g, g in 0..MaxGray.
MaxGray == 1
\* Largest value of the -iterations flag.
MaxIter == 2
\* Largest value of the -rowspergo flag.
MaxRowsPerGo == 3
\* Cap on the goroutines one band loop starts (only a loop that never ends hits it).
MaxSpawn == 3
\* Largest width and height, and largest channel count, of the buffers the
\* buffer operations are run on.
MaxDim == 3
MaxChan == 2
\* Values written through Set or an AtF slice are -v, v in 1..MaxVal.
MaxVal == 1

\* float32: the largest binary exponent of a finite value.
FloatMaxExp == 127

\* int: the width of Go's int on a 32-bit build (it is 64 on a 64-bit build,
\* where the same sums wrap at 2^63).
IntBits == 32

\* ------------------------------------------------------------------ float32
\* A float32 is <<n, d>>: the rational n/d in lowest terms with d > 0, or
\* <<1, 0>> = +Inf, <<-1, 0>> = -Inf, <<0, 0>> = NaN. Arithmetic follows
\* IEEE 754 for the special values; finite results are exact (rounding and
\* the sign of zero are not modelled).

Abs(x) == IF x < 0 THEN -x ELSE x

Sgn(x) == IF x < 0 THEN -1 ELSE IF x > 0 THEN 1 ELSE 0

RECURSIVE GCD(_, _)
GCD(a, b) == IF b = 0 THEN a ELSE GCD(b, a % b)

Norm(n, d) ==
    LET g == GCD(Abs(n), Abs(d))
    IN  IF d = 0 THEN <<Sgn(n), 0>>
        ELSE IF d < 0 THEN <<(-n) \div g, (-d) \div g>>
        ELSE <<n \div g, d \div g>>

Zero == <<0, 1>>
One == <<1, 1>>
PosInf == <<1, 0>>
NegInf == <<-1, 0>>
NaN == <<0, 0>>
IntF(i) == <<i, 1>>

IsNaN(a) == a = NaN
IsInf(a) == a[2] = 0 /\ a[1] # 0
IsFinite(a) == a[2] # 0
IsZero(a) == a[2] # 0 /\ a[1] = 0

FNeg(a) == <<-a[1], a[2]>>

FAdd(a, b) ==
    IF IsNaN(a) \/ IsNaN(b) THEN NaN
    ELSE IF IsInf(a) /\ IsInf(b) THEN (IF a = b THEN a ELSE NaN)
    ELSE IF IsInf(a) THEN a
    ELSE IF IsInf(b) THEN b
    ELSE Norm(a[1] * b[2] + b[1] * a[2], a[2] * b[2])

FSub(a, b) == FAdd(a, FNeg(b))

FMul(a, b) ==
    IF IsNaN(a) \/ IsNaN(b) THEN NaN
    ELSE IF IsInf(a) \/ IsInf(b)
         THEN (IF IsZero(a) \/ IsZero(b) THEN NaN ELSE <<Sgn(a[1]) * Sgn(b[1]), 0>>)
    ELSE Norm(a[1] * b[1], a[2] * b[2])

FDiv(a, b) ==
    IF IsNaN(a) \/ IsNaN(b) THEN NaN
    ELSE IF IsInf(a) THEN (IF IsInf(b) THEN NaN
                           ELSE <<a[1] * (IF b[1] < 0 THEN -1 ELSE 1), 0>>)
    ELSE IF IsInf(b) THEN Zero
    ELSE IF IsZero(b) THEN (IF IsZero(a) THEN NaN ELSE <<Sgn(a[1]), 0>>)
    ELSE Norm(a[1] * b[2], a[2] * b[1])

\* a > b; false when either is NaN.
FGt(a, b) ==
    IF IsNaN(a) \/ IsNaN(b) THEN FALSE
    ELSE IF IsInf(a) THEN a[1] > 0 /\ a # b
    ELSE IF IsInf(b) THEN b[1] < 0
    ELSE a[1] * b[2] > b[1] * a[2]

\* -1.0 * math.MaxFloat32: below every value the model stores in a buffer.
NegMaxFloat32 == NegInf

RECURSIVE Pow2(_)
Pow2(e) == IF e <= 0 THEN 1 ELSE 2 * Pow2(e - 1)

\* ------------------------------------------------------------------ int
\* Go's int arithmetic wraps around (two's complement, IntBits wide).

MaxInt == (Pow2(IntBits - 2) - 1) + Pow2(IntBits - 2)
MinInt == (-MaxInt) - 1

\* Slip: a sum below the smallest int stays there instead of wrapping.
WrapAddClamped(a, b) ==
    IF b >= 0 THEN (IF a > MaxInt - b THEN MaxInt ELSE a + b)
    ELSE (IF a < MinInt - b THEN MinInt ELSE a + b)

\* a + b
WrapAdd(a, b) ==
    IF b >= 0 THEN (IF a > MaxInt - b THEN ((a - MaxInt) - 1) + ((b - MaxInt) - 1) ELSE a + b)
    ELSE (IF a < MinInt - b THEN ((a + MaxInt) + 1) + ((b + MaxInt) + 1) ELSE a + b)

\* a - b
WrapSub(a, b) == IF b = MinInt THEN WrapAdd(WrapAdd(a, MaxInt), 1) ELSE WrapAdd(a, -b)

\* a * n for 0 <= n, as n additions.
RECURSIVE WrapMulBy(_, _)
WrapMulBy(a, n) == IF n = 0 THEN 0 ELSE WrapAdd(WrapMulBy(a, n - 1), a)

\* Factors below this bound have a product inside the int range.
SmallInt == Pow2((IntBits \div 2) - 1)

\* a * n for 0 <= n: the plain product where it cannot leave the range.
WrapMul(a, n) ==
    IF -SmallInt < a /\ a < SmallInt /\ n < SmallInt THEN a * n ELSE WrapMulBy(a, n)

\* ------------------------------------------------------------------ FloatImg
\* heap maps the name of a backing array to its floats (1-based here, so Go's
\* Pix[i] is heap[arr][off + i + 1]); a FloatImg is the header
\* [arr, off, Stride, Rect, Chancnt]: Pix is the slice heap[arr][off:].

Rectangle(x0, y0, x1, y1) == [MinX |-> x0, MinY |-> y0, MaxX |-> x1, MaxY |-> y1]

Dx(r) == r.MaxX - r.MinX
Dy(r) == r.MaxY - r.MinY

Empty(r) == r.MinX >= r.MaxX \/ r.MinY >= r.MaxY

ZR == Rectangle(0, 0, 0, 0)

Min2(i, j) == IF i < j THEN i ELSE j
Max2(i, j) == IF i > j THEN i ELSE j

Intersect(r, s) ==
    LET t == Rectangle(Max2(r.MinX, s.MinX), Max2(r.MinY, s.MinY),
                       Min2(r.MaxX, s.MaxX), Min2(r.MaxY, s.MaxY))
    IN  IF Empty(t) THEN ZR ELSE t

PointIn(x, y, r) == r.MinX <= x /\ x < r.MaxX /\ r.MinY <= y /\ y < r.MaxY

Cells(r) == {<<x, y>> \in (r.MinX .. r.MaxX - 1) \X (r.MinY .. r.MaxY - 1) : TRUE}

\* NewFloatImg: the zeroed backing array, and the header over it.
NewPix(r, channelCount) == [i \in 1 .. channelCount * Dx(r) * Dy(r) |-> Zero]

NewFloatImg(a, r, channelCount) ==
    [arr |-> a, off |-> 0, Stride |-> channelCount * Dx(r), Rect |-> r,
     Chancnt |-> channelCount]

PixOffset(p, x, y) ==
    WrapAdd(WrapMul(WrapSub(y, p.Rect.MinY), p.Stride), WrapMul(WrapSub(x, p.Rect.MinX), p.Chancnt))

\* len(p.Pix) (= cap(p.Pix): every slice runs to the end of its array).
PixLen(h, p) == Len(h[p.arr]) - p.off

\* AtF's slice expression p.Pix[i : i+Chancnt] is in range.
AtFOk(h, p, x, y) ==
    LET i == PixOffset(p, x, y)
    IN  0 <= i /\ i <= PixLen(h, p) - p.Chancnt

\* p.AtF(x, y)[c]
AtF(h, p, x, y, c) == h[p.arr][p.off + PixOffset(p, x, y) + c + 1]

\* p.AtF(x, y)[c] = val, or p.Set(x, y, c, val)
Set(h, p, x, y, c, val) ==
    [h EXCEPT ![p.arr][p.off + PixOffset(p, x, y) + c + 1] = val]

SetOk(h, p, x, y, c) ==
    LET i == PixOffset(p, x, y) + c
    IN  0 <= i /\ i < PixLen(h, p)

\* The cells of r in row-major order (the order of the y, x loops).
CellSeq(r) ==
    [k \in 1 .. Dx(r) * Dy(r) |-> <<r.MinX + ((k - 1) % Dx(r)), r.MinY + ((k - 1) \div Dx(r))>>]

\* copy(p.Pix, orig.Pix): min(len, len) elements, none past the end of p.Pix.
CopyPix(h, p, orig) ==
    LET n == Min2(PixLen(h, p), PixLen(h, orig))
    IN  [h EXCEPT ![p.arr] = [i \in DOMAIN h[p.arr] |->
            IF i > p.off /\ i - p.off <= n THEN h[orig.arr][orig.off + (i - p.off)]
            ELSE h[p.arr][i]]]

\* Copy's three header assignments.
CopyHdr(p, orig) ==
    [p EXCEPT !.Rect = orig.Rect, !.Stride = orig.Stride, !.Chancnt = orig.Chancnt]

\* Slip: the second assignment of the channel loop runs the wrong way.
RECURSIVE MirrorChansBackwards(_, _, _, _, _, _, _)
MirrorChansBackwards(h, p, outA, inA, outB, inB, c) ==
    IF c >= p.Chancnt THEN h
    ELSE LET h1 == Set(h, p, outA[1], outA[2], c, AtF(h, p, inA[1], inA[2], c))
             h2 == Set(h1, p, inB[1], inB[2], c, AtF(h1, p, outB[1], outB[2], c))
         IN  MirrorChansBackwards(h2, p, outA, inA, outB, inB, c + 1)

\* Dummies works on st = [h, ok]: the heap, and ok = FALSE once a slice
\* expression was out of range (the run-time panic; nothing is written after).
RECURSIVE MirrorChans(_, _, _, _, _, _, _)
MirrorChans(h, p, outA, inA, outB, inB, c) ==
    IF c >= p.Chancnt THEN h
    ELSE LET h1 == Set(h, p, outA[1], outA[2], c, AtF(h, p, inA[1], inA[2], c))
             h2 == Set(h1, p, outB[1], outB[2], c, AtF(h1, p, inB[1], inB[2], c))
         IN  MirrorChans(h2, p, outA, inA, outB, inB, c + 1)

\* One iteration of either loop: the four AtF slices, then the channel loop.
MirrorStep(st, p, outA, inA, outB, inB) ==
    IF ~st.ok THEN st
    ELSE IF \E q \in {outA, inA, outB, inB} : ~AtFOk(st.h, p, q[1], q[2])
         THEN [st EXCEPT !.ok = FALSE]
    ELSE [st EXCEPT !.h = MirrorChans(st.h, p, outA, inA, outB, inB, 0)]

RECURSIVE DummiesRows(_, _, _)
DummiesRows(st, p, x) ==
    LET b == p.Rect
    IN  IF x >= b.MaxX - 1 THEN st
        ELSE DummiesRows(MirrorStep(st, p, <<x, b.MaxY - 1>>, <<x, b.MaxY - 2>>,
                                    <<x, b.MinY>>, <<x, b.MinY + 1>>), p, x + 1)

RECURSIVE DummiesCols(_, _, _)
DummiesCols(st, p, y) ==
    LET b == p.Rect
    IN  IF y >= b.MaxY THEN st
        ELSE DummiesCols(MirrorStep(st, p, <<b.MinX, y>>, <<b.MinX + 1, y>>,
                                    <<b.MaxX - 1, y>>, <<b.MaxX - 2, y>>), p, y + 1)

Dummies(h, p) == DummiesCols(DummiesRows([h |-> h, ok |-> TRUE], p, p.Rect.MinX + 1), p, p.Rect.MinY)

\* Slip: the sub-image's slice starts at the owner's first float.
SubImageNoOffset(p, r) ==
    [arr |-> p.arr, off |-> p.off, Stride |-> p.Stride, Rect |-> r, Chancnt |-> p.Chancnt]

\* SubImage's header for a non-empty intersection r: Pix = p.Pix[i:].
SubImage(p, r) ==
    [arr |-> p.arr, off |-> p.off + PixOffset(p, r.MinX, r.MinY), Stride |-> p.Stride,
     Rect |-> r, Chancnt |-> p.Chancnt]

\* Dedummify's rectangle.
RealBounds(b) == Rectangle(b.MinX + 1, b.MinY + 1, b.MaxX - 1, b.MaxY - 1)

\* ScaleToUnsignedByte: the first loop nest (max of channel c), from cell k on.
RECURSIVE ChanMax(_, _, _, _, _)
ChanMax(h, p, c, k, max) ==
    LET cs == CellSeq(p.Rect)
    IN  IF k > Len(cs) THEN max
        ELSE LET v == AtF(h, p, cs[k][1], cs[k][2], c)
             IN  ChanMax(h, p, c, k + 1, IF FGt(v, max) THEN v ELSE max)

\* help = 255 * p.AtF(x, y)[c] / max[c]
ScaleVal(v, max) == FDiv(FMul(IntF(255), v), max)

\* The channel loop at cell (x, y): help = 255 * p.AtF(x, y)[c] / max[c] is
\* stored to p.AtF(x, y)[c], for each c; the floats of the slice are distinct.
ScaleCell(h, p, max, x, y) ==
    LET i0 == p.off + PixOffset(p, x, y)
    IN  [h EXCEPT ![p.arr] = [i \in DOMAIN h[p.arr] |->
            IF i0 < i /\ i <= i0 + p.Chancnt THEN ScaleVal(h[p.arr][i], max[i - i0])
            ELSE h[p.arr][i]]]

\* The second loop nest, from cell k on; max is the array of maxima.
RECURSIVE ScaleFrom(_, _, _, _)
ScaleFrom(h, p, max, k) ==
    LET cs == CellSeq(p.Rect)
    IN  IF k > Len(cs) THEN h
        ELSE ScaleFrom(ScaleCell(h, p, max, cs[k][1], cs[k][2]), p, max, k + 1)

ScaleToUnsignedByte(h, p) ==
    ScaleFrom(h, p, [c \in 1 .. p.Chancnt |-> ChanMax(h, p, c - 1, 1, NegMaxFloat32)], 1)

\* ------------------------------------------------------------------ solver
\* alpha is <<n, e>>: the float32 n * 2^e with n in {-1, 0, 1}.

\* help := 1.0 / alpha, in float32: +Inf for alpha = 0, and an overflow to
\* +-Inf when 2^-e is above the largest finite float32.
Help(a) ==
    IF a[1] = 0 THEN FDiv(One, Zero)
    ELSE IF -a[2] > FloatMaxExp THEN <<Sgn(a[1]), 0>>
    ELSE IF a[2] >= 0 THEN Norm(1, a[1] * Pow2(a[2]))
    ELSE Norm(Pow2(-a[2]), a[1])

AlphaPositive(a) == a[1] > 0

\* Slip: Fz is the sum of the two frames, not their difference.
InnerDeriveCellSum(h, f1, f2, derivs, i, j) ==
    LET Fx == FDiv(FSub(FAdd(FSub(AtF(h, f1, i + 1, j, 0), AtF(h, f1, i - 1, j, 0)),
                             AtF(h, f2, i + 1, j, 0)), AtF(h, f2, i - 1, j, 0)), IntF(4))
        Fy == FDiv(FSub(FAdd(FSub(AtF(h, f1, i, WrapAdd(j, 1), 0), AtF(h, f1, i, WrapSub(j, 1), 0)),
                             AtF(h, f2, i, WrapAdd(j, 1), 0)), AtF(h, f2, i, WrapSub(j, 1), 0)), IntF(4))
        Fz == FAdd(AtF(h, f2, i, j, 0), AtF(h, f1, i, j, 0))
    IN  Set(Set(Set(h, derivs, i, j, 0, Fx), derivs, i, j, 1, Fy), derivs, i, j, 2, Fz)

\* innerDerive, one cell: Fx, Fy, Fz written to derivs.AtF(i, j).
InnerDeriveCell(h, f1, f2, derivs, i, j) ==
    LET Fx == FDiv(FSub(FAdd(FSub(AtF(h, f1, i + 1, j, 0), AtF(h, f1, i - 1, j, 0)),
                             AtF(h, f2, i + 1, j, 0)), AtF(h, f2, i - 1, j, 0)), IntF(4))
        Fy == FDiv(FSub(FAdd(FSub(AtF(h, f1, i, WrapAdd(j, 1), 0), AtF(h, f1, i, WrapSub(j, 1), 0)),
                             AtF(h, f2, i, WrapAdd(j, 1), 0)), AtF(h, f2, i, WrapSub(j, 1), 0)), IntF(4))
        Fz == FSub(AtF(h, f2, i, j, 0), AtF(h, f1, i, j, 0))
    IN  Set(Set(Set(h, derivs, i, j, 0, Fx), derivs, i, j, 1, Fy), derivs, i, j, 2, Fz)

\* Every slice expression of row j of innerDerive is in range.
InnerDeriveRowOk(h, f1, f2, derivs, j) ==
    \A i \in f1.Rect.MinX + 1 .. f1.Rect.MaxX - 2 :
        /\ \A f \in {f1, f2} :
              \A q \in {<<i + 1, j>>, <<i - 1, j>>, <<i, WrapAdd(j, 1)>>, <<i, WrapSub(j, 1)>>,
                         <<i, j>>} : AtFOk(h, f, q[1], q[2])
        /\ AtFOk(h, derivs, i, j)

\* innerDerive, the i loop of row j, from column i on.
RECURSIVE InnerDeriveRow(_, _, _, _, _, _)
InnerDeriveRow(h, f1, f2, derivs, i, j) ==
    IF i >= f1.Rect.MaxX - 1 THEN h
    ELSE InnerDeriveRow(InnerDeriveCell(h, f1, f2, derivs, i, j), f1, f2, derivs, i + 1, j)

\* Slip: the right-hand test compares with Max.X, not Max.X - 1.
NeighboursPastEdge(b, i, j) ==
    (IF i > b.MinX THEN <<(<<i - 1, j>>)>> ELSE <<>>) \o
    (IF i < b.MaxX THEN <<(<<i + 1, j>>)>> ELSE <<>>) \o
    (IF j > b.MinY THEN <<(<<i, j - 1>>)>> ELSE <<>>) \o
    (IF j < b.MaxY - 1 THEN <<(<<i, j + 1>>)>> ELSE <<>>)

\* innerFlow's four neighbour tests at (i, j), in the order of the code.
Neighbours(b, i, j) ==
    (IF i > b.MinX THEN <<(<<i - 1, j>>)>> ELSE <<>>) \o
    (IF i < b.MaxX - 1 THEN <<(<<i + 1, j>>)>> ELSE <<>>) \o
    (IF j > b.MinY THEN <<(<<i, j - 1>>)>> ELSE <<>>) \o
    (IF j < b.MaxY - 1 THEN <<(<<i, j + 1>>)>> ELSE <<>>)

\* uSum (c = 0) or vSum (c = 1) after the neighbour tests: acc plus channel c
\* of oldvec at the cells of ns, from the n-th on.
RECURSIVE NeighbourSum(_, _, _, _, _, _)
NeighbourSum(h, oldvec, ns, c, n, acc) ==
    IF n > Len(ns) THEN acc
    ELSE NeighbourSum(h, oldvec, ns, c, n + 1, FAdd(acc, AtF(h, oldvec, ns[n][1], ns[n][2], c)))

\* The divisor of uSum (c = 0: Fx) or vSum (c = 1: Fy):
\* float32(nn) + help*fxij*fxij, float32(nn) + help*fyij*fyij.
FlowDivisor(h, help, derivs, nn, i, j, c) ==
    FAdd(IntF(nn), FMul(FMul(help, AtF(h, derivs, i, j, c)), AtF(h, derivs, i, j, c)))

\* innerFlow, one cell: uSum, vSum written to vecField.AtF(i, j).
InnerFlowCell(h, help, derivs, oldvec, vecField, i, j) ==
    LET ns == Neighbours(vecField.Rect, i, j)
        nn == Len(ns)
        fxij == AtF(h, derivs, i, j, 0)
        fyij == AtF(h, derivs, i, j, 1)
        fzij == AtF(h, derivs, i, j, 2)
        uold == AtF(h, oldvec, i, j, 0)
        vold == AtF(h, oldvec, i, j, 1)
        u1 == FSub(NeighbourSum(h, oldvec, ns, 0, 1, Zero),
                   FMul(FMul(help, fxij), FAdd(FMul(fyij, vold), fzij)))
        u2 == FDiv(u1, FlowDivisor(h, help, derivs, nn, i, j, 0))
        v1 == FSub(NeighbourSum(h, oldvec, ns, 1, 1, Zero),
                   FMul(FMul(help, fyij), FAdd(FMul(fxij, uold), fzij)))
        v2 == FDiv(v1, FlowDivisor(h, help, derivs, nn, i, j, 1))
    IN  Set(Set(h, vecField, i, j, 0, u2), vecField, i, j, 1, v2)

\* innerFlow, the i loop of row j, from column i on.
RECURSIVE InnerFlowRow(_, _, _, _, _, _, _)
InnerFlowRow(h, help, derivs, oldvec, vecField, i, j) ==
    IF i >= vecField.Rect.MaxX THEN h
    ELSE InnerFlowRow(InnerFlowCell(h, help, derivs, oldvec, vecField, i, j),
                      help, derivs, oldvec, vecField, i + 1, j)

\* Slip: a band one row too long.
BandUpperLong(lo, rows, max) == Min2(WrapAdd(WrapAdd(lo, rows), 1), max)

\* upper := min(lower+numRowsPerGo, max)
BandUpper(lo, rows, max) == Min2(WrapAdd(lo, rows), max)

\* The row range of deriveMixed's band loop, and of flow's.
DeriveRange(b) == <<b.MinY + 1, b.MaxY - 1>>
FlowRange(b) == <<b.MinY, b.MaxY>>

\* bounds := f1.Bounds(), the rectangle of uv and uvOld.
FlowBounds(f1) == f1.Rect

\* Slip: flow is handed uv for both buffers (the sweep works in place).
FlowArgsInPlace == [oldvec |-> "uv", vecField |-> "uv"]

\* The buffers flow hands to innerFlow: flow(alpha, derivs, uvOld, uv).
FlowArgs == [oldvec |-> "uvOld", vecField |-> "uv"]

\* Slip: Wait does not wait.
WaitReturnsAlways(n) == TRUE

\* wg.Wait() returns.
WaitReturns(n) == n = 0

\* Slip: the loop stops one sweep early.
KeepGoingShort(kk, n) == kk < n

\* The condition of OpticFlowHornSchunk's loop.
KeepGoing(kk, n) == kk <= n

\* ------------------------------------------------------------------ state

VARIABLES
    heap,          \* backing arrays by name
    img,           \* FloatImg headers by name
    pc,            \* where the main goroutine (or the buffer scenario) stands
    alpha,         \* -alpha
    iterations,    \* -iterations
    numRowsPerGo,  \* -rowspergo
    lower,         \* the band loop's variable
    k,             \* OpticFlowHornSchunk's loop variable
    wg,            \* the WaitGroup's counter
    workers,       \* the goroutines started and not yet finished
    bands,         \* history: the bands <<lower, upper>> of the current pass
    rowWriters,    \* history: per row, the workers that wrote it in the current pass
    sweeps,        \* history: calls of flow that returned
    copies,        \* history: calls of uvOld.Copy(uv)
    prevOut,       \* history: uv's floats when the last call of flow returned
    readsOK,       \* history: every oldvec value read so far was prevOut's
    derivsRead,    \* history: the cells of derivs innerFlow addressed
    pre,           \* history: heap and img before the last buffer operation
    arg            \* history: the arguments of the last buffer operation

vars == <<heap, img, pc, alpha, iterations, numRowsPerGo, lower, k, wg, workers, bands,
          rowWriters, sweeps, copies, prevOut, readsOK, derivsRead, pre, arg>>

solverVars == <<alpha, iterations, numRowsPerGo, lower, k, wg, workers, bands,
                rowWriters, sweeps, copies, prevOut, readsOK, derivsRead>>

\* ------------------------------------------------------------------ inputs

\* The bounds of a decoded image.
ImgRect == Rectangle(0, 0, ImgW, ImgH)

GrayLevels == {4 * g : g \in 0 .. MaxGray}

\* Decoded gray images: black, with at most one brighter pixel.
DecodedImages ==
    {[q \in Cells(ImgRect) |-> IF q = b THEN g ELSE 0] : b \in Cells(ImgRect), g \in GrayLevels}

\* 0, 1 and the subnormal 2^-140.
AlphaSet == {<<0, 0>>, <<1, 0>>, <<1, -140>>}

\* GrayFloatWithDummiesFromImage: realBounds.
WithBorder(b) == Rectangle(b.MinX - 1, b.MinY - 1, b.MaxX + 1, b.MaxY + 1)

\* GrayFloatWithDummiesFromImage: the Set loop over the image, from cell n on.
RECURSIVE SetGray(_, _, _, _)
SetGray(h, f, image, n) ==
    LET cs == CellSeq(ImgRect)
    IN  IF n > Len(cs) THEN h
        ELSE SetGray(Set(h, f, cs[n][1], cs[n][2], 0, IntF(image[cs[n]])), f, image, n + 1)

\* GrayFloatWithDummiesFromImage: the floats of the buffer made from image.
GrayFloatWithDummiesFromImage(a, image) ==
    LET f == NewFloatImg(a, WithBorder(ImgRect), 1)
        h0 == [x \in {a} |-> NewPix(WithBorder(ImgRect), 1)]
    IN  Dummies(SetGray(h0, f, image, 1), f).h[a]

\* A -rowspergo value a quarter of the int range below zero.
BigStep == -Pow2(IntBits - 2)

NoImg == [arr |-> "", off |-> 0, Stride |-> 0, Rect |-> ZR, Chancnt |-> 0]

NoRows == [r \in {} |-> <<>>]

\* ------------------------------------------------------------------ solver actions

InitFlow ==
    /\ \E i1 \in DecodedImages, i2 \in DecodedImages :
         heap = [n \in {"f1", "f2", "derivs", "uv", "uvOld"} |->
                    IF n = "f1" THEN GrayFloatWithDummiesFromImage("f1", i1)
                    ELSE IF n = "f2" THEN GrayFloatWithDummiesFromImage("f2", i2)
                    ELSE <<>>]
    /\ img = [n \in {"f1", "f2", "derivs", "uv", "uvOld"} |->
                 IF n \in {"f1", "f2"} THEN NewFloatImg(n, WithBorder(ImgRect), 1) ELSE NoImg]
    /\ pc = "main"
    /\ alpha \in AlphaSet
    /\ iterations \in -1 .. MaxIter
    /\ numRowsPerGo \in (-1 .. MaxRowsPerGo) \cup {BigStep}
    /\ lower = 0
    /\ k = 0
    /\ wg = 0
    /\ workers = {}
    /\ bands = <<>>
    /\ rowWriters = NoRows
    /\ sweeps = 0
    /\ copies = 0
    /\ prevOut = <<>>
    /\ readsOK = TRUE
    /\ derivsRead = {}
    /\ pre = <<>>
    /\ arg = <<>>

\* The band loop may start another goroutine (the cap binds only a loop that
\* never advances).
MaySpawn == numRowsPerGo >= 1 \/ Len(bands) < MaxSpawn

\* main calls OpticFlowHornSchunk, which calls deriveMixed: derivs is made.
MainCall ==
    /\ pc = "main"
    /\ heap' = [heap EXCEPT !["derivs"] = NewPix(img["f1"].Rect, 3)]
    /\ img' = [img EXCEPT !["derivs"] = NewFloatImg("derivs", img["f1"].Rect, 3)]
    /\ pc' = "derive"
    /\ lower' = DeriveRange(img["f1"].Rect)[1]
    /\ wg' = 0
    /\ bands' = <<>>
    /\ rowWriters' = [r \in img["f1"].Rect.MinY .. img["f1"].Rect.MaxY - 1 |-> <<>>]
    /\ UNCHANGED <<alpha, iterations, numRowsPerGo, k, workers, sweeps, copies, prevOut,
                   readsOK, derivsRead, pre, arg>>

\* deriveMixed's loop body: one band, one goroutine.
DeriveSpawn ==
    /\ pc = "derive"
    /\ lower < DeriveRange(img["f1"].Rect)[2]
    /\ MaySpawn
    /\ LET upper == BandUpper(lower, numRowsPerGo, DeriveRange(img["f1"].Rect)[2])
       IN  /\ wg' = wg + 1
           /\ workers' = workers \cup {[id |-> Len(bands) + 1, fn |-> "innerDerive",
                                         oldvec |-> "", vecField |-> "derivs",
                                         minRow |-> lower, maxRow |-> upper, j |-> lower]}
           /\ bands' = Append(bands, <<lower, upper>>)
           /\ lower' = upper
    /\ UNCHANGED <<heap, img, pc, alpha, iterations, numRowsPerGo, k, rowWriters, sweeps,
                   copies, prevOut, readsOK, derivsRead, pre, arg>>

\* The row of p's array that the offset of row j falls in.
RowOf(p, j) == p.Rect.MinY + (PixOffset(p, p.Rect.MinX, j) \div p.Stride)

\* innerDerive: one row of the band. A slice expression out of range is a
\* run-time panic, which ends the process: every goroutine is gone.
InnerDerive(w) ==
    /\ w.fn = "innerDerive"
    /\ w.j < w.maxRow
    /\ IF InnerDeriveRowOk(heap, img["f1"], img["f2"], img[w.vecField], w.j)
       THEN /\ heap' = InnerDeriveRow(heap, img["f1"], img["f2"], img[w.vecField],
                                      img["f1"].Rect.MinX + 1, w.j)
            /\ workers' = (workers \ {w}) \cup {[w EXCEPT !.j = w.j + 1]}
            /\ rowWriters' = [rowWriters EXCEPT ![RowOf(img[w.vecField], w.j)] = Append(@, w.id)]
            /\ pc' = pc
       ELSE /\ pc' = "panic"
            /\ workers' = {}
            /\ UNCHANGED <<heap, rowWriters>>
    /\ UNCHANGED <<img, alpha, iterations, numRowsPerGo, lower, k, wg, bands, sweeps,
                   copies, prevOut, readsOK, derivsRead, pre, arg>>

\* innerDerive: wg.Done().
InnerDeriveDone(w) ==
    /\ w.fn = "innerDerive"
    /\ w.j >= w.maxRow
    /\ wg' = wg - 1
    /\ workers' = workers \ {w}
    /\ UNCHANGED <<heap, img, pc, alpha, iterations, numRowsPerGo, lower, k, bands,
                   rowWriters, sweeps, copies, prevOut, readsOK, derivsRead, pre, arg>>

\* deriveMixed's wg.Wait() and return; OpticFlowHornSchunk makes uv and uvOld.
DeriveWait ==
    /\ pc = "derive"
    /\ ~(lower < DeriveRange(img["f1"].Rect)[2])
    /\ WaitReturns(wg)
    /\ heap' = [heap EXCEPT !["uv"] = NewPix(FlowBounds(img["f1"]), 2),
                            !["uvOld"] = NewPix(FlowBounds(img["f1"]), 2)]
    /\ img' = [img EXCEPT !["uv"] = NewFloatImg("uv", FlowBounds(img["f1"]), 2),
                          !["uvOld"] = NewFloatImg("uvOld", FlowBounds(img["f1"]), 2)]
    /\ prevOut' = NewPix(FlowBounds(img["f1"]), 2)
    /\ k' = 1
    /\ pc' = "loop"
    /\ UNCHANGED <<alpha, iterations, numRowsPerGo, lower, wg, workers, bands, rowWriters,
                   sweeps, copies, readsOK, derivsRead, pre, arg>>

\* for k := 1; k <= iterations: the call of flow, or the return of uv.
LoopTest ==
    /\ pc = "loop"
    /\ IF KeepGoing(k, iterations)
       THEN /\ pc' = "flow"
            /\ lower' = FlowRange(img[FlowArgs.vecField].Rect)[1]
            /\ wg' = 0
            /\ bands' = <<>>
            /\ rowWriters' = [r \in DOMAIN rowWriters |-> <<>>]
       ELSE /\ pc' = "done"
            /\ UNCHANGED <<lower, wg, bands, rowWriters>>
    /\ UNCHANGED <<heap, img, alpha, iterations, numRowsPerGo, k, workers, sweeps, copies,
                   prevOut, readsOK, derivsRead, pre, arg>>

\* flow's loop body: one band, one goroutine.
FlowSpawn ==
    /\ pc = "flow"
    /\ lower < FlowRange(img[FlowArgs.vecField].Rect)[2]
    /\ MaySpawn
    /\ LET upper == BandUpper(lower, numRowsPerGo, FlowRange(img[FlowArgs.vecField].Rect)[2])
       IN  /\ wg' = wg + 1
           /\ workers' = workers \cup {[id |-> Len(bands) + 1, fn |-> "innerFlow",
                                         oldvec |-> FlowArgs.oldvec,
                                         vecField |-> FlowArgs.vecField,
                                         minRow |-> lower, maxRow |-> upper, j |-> lower]}
           /\ bands' = Append(bands, <<lower, upper>>)
           /\ lower' = upper
    /\ UNCHANGED <<heap, img, pc, alpha, iterations, numRowsPerGo, k, rowWriters, sweeps,
                   copies, prevOut, readsOK, derivsRead, pre, arg>>

\* The rows of oldvec that row j of innerFlow reads.
RowsRead(b, j) == {y \in {j - 1, j, j + 1} : b.MinY <= y /\ y < b.MaxY}

\* innerFlow: one row of the band.
InnerFlow(w) ==
    /\ w.fn = "innerFlow"
    /\ w.j < w.maxRow
    /\ LET b == img[w.vecField].Rect
       IN  /\ heap' = InnerFlowRow(heap, Help(alpha), img["derivs"], img[w.oldvec],
                                   img[w.vecField], b.MinX, w.j)
           /\ readsOK' = (readsOK /\ \A y \in RowsRead(b, w.j), x \in b.MinX .. b.MaxX - 1,
                                         c \in 0 .. 1 :
                             AtF(heap, img[w.oldvec], x, y, c)
                               = prevOut[PixOffset(img[w.oldvec], x, y) + c + 1])
           /\ derivsRead' = derivsRead \cup {<<x, w.j>> : x \in b.MinX .. b.MaxX - 1}
    /\ workers' = (workers \ {w}) \cup {[w EXCEPT !.j = w.j + 1]}
    /\ rowWriters' = [rowWriters EXCEPT ![w.j] = Append(@, w.id)]
    /\ UNCHANGED <<img, pc, alpha, iterations, numRowsPerGo, lower, k, wg, bands, sweeps,
                   copies, prevOut, pre, arg>>

\* innerFlow: wg.Done().
InnerFlowDone(w) ==
    /\ w.fn = "innerFlow"
    /\ w.j >= w.maxRow
    /\ wg' = wg - 1
    /\ workers' = workers \ {w}
    /\ UNCHANGED <<heap, img, pc, alpha, iterations, numRowsPerGo, lower, k, bands,
                   rowWriters, sweeps, copies, prevOut, readsOK, derivsRead, pre, arg>>

\* flow's wg.Wait() and return.
FlowWait ==
    /\ pc = "flow"
    /\ ~(lower < FlowRange(img[FlowArgs.vecField].Rect)[2])
    /\ WaitReturns(wg)
    /\ pc' = "copy"
    /\ sweeps' = sweeps + 1
    /\ prevOut' = heap["uv"]
    /\ UNCHANGED <<heap, img, alpha, iterations, numRowsPerGo, lower, k, wg, workers, bands,
                   rowWriters, copies, readsOK, derivsRead, pre, arg>>

\* uvOld.Copy(uv); k++
CopyStep ==
    /\ pc = "copy"
    /\ heap' = CopyPix(heap, img["uvOld"], img["uv"])
    /\ img' = [img EXCEPT !["uvOld"] = CopyHdr(img["uvOld"], img["uv"])]
    /\ copies' = copies + 1
    /\ k' = k + 1
    /\ pc' = "loop"
    /\ UNCHANGED <<alpha, iterations, numRowsPerGo, lower, wg, workers, bands, rowWriters,
                   sweeps, prevOut, readsOK, derivsRead, pre, arg>>

Next ==
    \/ MainCall
    \/ DeriveSpawn
    \/ \E w \in workers : InnerDerive(w)
    \/ \E w \in workers : InnerDeriveDone(w)
    \/ DeriveWait
    \/ LoopTest
    \/ FlowSpawn
    \/ \E w \in workers : InnerFlow(w)
    \/ \E w \in workers : InnerFlowDone(w)
    \/ FlowWait
    \/ CopyStep

Spec == InitFlow /\ [][Next]_vars

\* ------------------------------------------------------------------ buffer operations
\* One FloatImg "p" over a rectangle at (-1, -1); each channel holds either
\* zeros or a ramp (the 1-based index of the float), so that every float of a
\* ramp channel differs from every other.

BufRects == {Rectangle(-1, -1, w - 1, h - 1) : w \in 1 .. MaxDim, h \in 1 .. MaxDim}

Ramp(r, channelCount, zc) ==
    [i \in 1 .. channelCount * Dx(r) * Dy(r) |->
        IF (i - 1) % channelCount = zc - 1 THEN Zero ELSE IntF(i)]

\* The rectangles SubImage is called with.
SubRects == {Rectangle(x, y, x + w, y + h) : x \in -2 .. MaxDim - 2, y \in -2 .. MaxDim - 2,
                                            w \in 1 .. 2, h \in 1 .. 2}

InitImg ==
    /\ \E r \in BufRects, ch \in 1 .. MaxChan, zc \in 0 .. MaxChan :
         /\ zc <= ch
         /\ heap = [n \in {"p", "sub", "q"} |-> IF n = "p" THEN Ramp(r, ch, zc) ELSE <<>>]
         /\ img = [n \in {"p", "sub", "q"} |-> IF n = "p" THEN NewFloatImg("p", r, ch) ELSE NoImg]
    /\ pc = "new"
    /\ alpha = <<1, 0>>
    /\ iterations = 0
    /\ numRowsPerGo = 1
    /\ lower = 0
    /\ k = 0
    /\ wg = 0
    /\ workers = {}
    /\ bands = <<>>
    /\ rowWriters = NoRows
    /\ sweeps = 0
    /\ copies = 0
    /\ prevOut = <<>>
    /\ readsOK = TRUE
    /\ derivsRead = {}
    /\ pre = <<>>
    /\ arg = <<>>

\* p.Dummies()
DummiesCall ==
    /\ pc = "new"
    /\ LET st == Dummies(heap, img["p"])
       IN  /\ heap' = st.h
           /\ pc' = IF st.ok THEN "dummied" ELSE "panic"
    /\ pre' = [heap |-> heap, img |-> img]
    /\ arg' = <<>>
    /\ UNCHANGED <<img, solverVars>>

\* sub := p.SubImage(r)
SubImageCall(r) ==
    /\ pc = "new"
    /\ LET ri == Intersect(r, img["p"].Rect)
       IN  IF Empty(ri)
           THEN /\ heap' = [heap EXCEPT !["sub"] = NewPix(ri, 0)]
                /\ img' = [img EXCEPT !["sub"] = NewFloatImg("sub", ri, 0)]
           ELSE /\ heap' = heap
                /\ img' = [img EXCEPT !["sub"] = SubImage(img["p"], ri)]
    /\ pc' = "sub"
    /\ pre' = [heap |-> heap, img |-> img]
    /\ arg' = [r |-> r]
    /\ UNCHANGED solverVars

\* via.Set(x, y, c, val), or via.AtF(x, y)[c] = val, at a cell of sub's bounds.
SetCall(via, x, y, c, val) ==
    /\ pc = "sub"
    /\ PointIn(x, y, img["sub"].Rect)
    /\ c < img[via].Chancnt
    /\ heap' = Set(heap, img[via], x, y, c, val)
    /\ pc' = "wrote"
    /\ pre' = [heap |-> heap, img |-> img]
    /\ arg' = [via |-> via, x |-> x, y |-> y, c |-> c, val |-> val]
    /\ UNCHANGED <<img, solverVars>>

\* p.ScaleToUnsignedByte()
ScaleCall ==
    /\ pc = "new"
    /\ heap' = ScaleToUnsignedByte(heap, img["p"])
    /\ pc' = "scaled"
    /\ pre' = [heap |-> heap, img |-> img]
    /\ arg' = <<>>
    /\ UNCHANGED <<img, solverVars>>

\* q := NewFloatImg(r, channelCount); q.Copy(p)
CopyCall(r, channelCount) ==
    /\ pc = "new"
    /\ LET q == NewFloatImg("q", r, channelCount)
       IN  /\ heap' = CopyPix([heap EXCEPT !["q"] = NewPix(r, channelCount)], q, img["p"])
           /\ img' = [img EXCEPT !["q"] = CopyHdr(q, img["p"])]
    /\ pc' = "copied"
    /\ pre' = [heap |-> heap, img |-> img]
    /\ arg' = [r |-> r, channelCount |-> channelCount]
    /\ UNCHANGED solverVars

NextImg ==
    \/ DummiesCall
    \/ \E r \in SubRects : SubImageCall(r)
    \/ \E via \in {"p", "sub"}, x \in -1 .. MaxDim - 2, y \in -1 .. MaxDim - 2,
          c \in 0 .. MaxChan - 1, v \in 1 .. MaxVal : SetCall(via, x, y, c, IntF(-v))
    \/ ScaleCall
    \/ \E r \in BufRects, ch \in 1 .. MaxChan : CopyCall(r, ch)

SpecImg == InitImg /\ [][NextImg]_vars

\* ------------------------------------------------------------------ properties of the solver

\* The pass the band history belongs to is deriveMixed's (else it is flow's).
InDerivePass == pc = "derive" \/ (pc \in {"loop", "done"} /\ sweeps = 0)

\* The band loop of the current pass has ended and its Wait has returned.
PassComplete == pc \in {"loop", "copy", "done"}

\* The same computation with no goroutines: every row of a pass in order.
RECURSIVE SeqDeriveRows(_, _)
SeqDeriveRows(h, j) ==
    IF j >= DeriveRange(img["f1"].Rect)[2] THEN h
    ELSE SeqDeriveRows(InnerDeriveRow(h, img["f1"], img["f2"],
                                      NewFloatImg("derivs", img["f1"].Rect, 3),
                                      img["f1"].Rect.MinX + 1, j), j + 1)

RECURSIVE SeqFlowRows(_, _)
SeqFlowRows(h, j) ==
    LET b == FlowBounds(img["f1"])
    IN  IF j >= FlowRange(b)[2] THEN h
        ELSE SeqFlowRows(InnerFlowRow(h, Help(alpha), NewFloatImg("derivs", img["f1"].Rect, 3),
                                      NewFloatImg("uvOld", b, 2), NewFloatImg("uv", b, 2),
                                      b.MinX, j), j + 1)

RECURSIVE SeqSweeps(_, _)
SeqSweeps(h, n) ==
    LET b == FlowBounds(img["f1"])
    IN  IF n <= 0 THEN h
        ELSE SeqSweeps(CopyPix(SeqFlowRows(h, FlowRange(b)[1]),
                               NewFloatImg("uvOld", b, 2), NewFloatImg("uv", b, 2)), n - 1)

SeqResult ==
    LET b == FlowBounds(img["f1"])
        h0 == [heap EXCEPT !["derivs"] = NewPix(img["f1"].Rect, 3),
                           !["uv"] = NewPix(b, 2), !["uvOld"] = NewPix(b, 2)]
    IN  SeqSweeps(SeqDeriveRows(h0, DeriveRange(img["f1"].Rect)[1]), iterations)["uv"]

\* C1: for every rowsPerUnit >= 1 and every interleaving of the band workers,
\* the flow field OpticFlowHornSchunk returns is the one the sequential
\* computation (every sweep row by row) gives for the same f1, f2, alpha and
\* iteration count.
C1_Deterministic ==
    (pc = "done" /\ numRowsPerGo >= 1) => heap["uv"] = SeqResult

\* A run of two sweeps in several bands that returned a non-zero finite flow.
C1_Witness ==
    /\ pc = "done"
    /\ iterations >= 2
    /\ Len(bands) > 1
    /\ \E i \in DOMAIN heap["uv"] : IsFinite(heap["uv"][i]) /\ ~IsZero(heap["uv"][i])

\* The row range and the band history of the current pass.
PassRange == IF InDerivePass THEN DeriveRange(img["f1"].Rect) ELSE FlowRange(img["uv"].Rect)

\* C2: for rowsPerUnit >= 1 the bands of one call of flow (rows [Min.Y, Max.Y))
\* and of deriveMixed (rows [Min.Y+1, Max.Y-1)) are consecutive, each of 1 to
\* rowsPerUnit rows, and once the pass is complete they cover the range: every
\* row of the range was written exactly once, by the worker of the band that
\* holds it, and no other row was written.
C2_BandsPartition ==
    (numRowsPerGo >= 1 /\ pc # "main") =>
        /\ \A n \in 1 .. Len(bands) :
              /\ bands[n][1] = (IF n = 1 THEN PassRange[1] ELSE bands[n - 1][2])
              /\ bands[n][2] - bands[n][1] >= 1
              /\ bands[n][2] - bands[n][1] <= numRowsPerGo
              /\ bands[n][2] <= PassRange[2]
        /\ \A r \in DOMAIN rowWriters :
              /\ Len(rowWriters[r]) <= 1
              /\ \A n \in 1 .. Len(rowWriters[r]) :
                    /\ rowWriters[r][n] \in 1 .. Len(bands)
                    /\ bands[rowWriters[r][n]][1] <= r
                    /\ r < bands[rowWriters[r][n]][2]
        /\ PassComplete =>
              /\ Len(bands) >= 1
              /\ bands[Len(bands)][2] = PassRange[2]
              /\ \A r \in DOMAIN rowWriters :
                    Len(rowWriters[r]) = (IF PassRange[1] <= r /\ r < PassRange[2] THEN 1 ELSE 0)

\* A complete sweep in two bands, the second shorter than the first.
C2_Witness ==
    /\ pc = "copy"
    /\ numRowsPerGo >= 2
    /\ Len(bands) = 2
    /\ bands[2][2] - bands[2][1] < bands[1][2] - bands[1][1]

\* C3: while a band worker of a sweep is running, uvOld holds what the sweep
\* before wrote to uv (zeros in the first sweep) and no worker reads uv; the
\* copy of uv into uvOld starts only when no worker is left; so every read of
\* uvOld returned the value the sweep before wrote at that cell.
C3_Barrier ==
    /\ pc = "copy" => (workers = {} /\ wg = 0)
    /\ \A w \in workers : w.fn = "innerFlow" =>
          /\ w.oldvec # "uv"
          /\ pc = "flow"
          /\ heap["uvOld"] = prevOut
    /\ readsOK

\* Second sweep: a worker has read uvOld (non-zero there) while another runs.
C3_Witness ==
    /\ pc = "flow"
    /\ sweeps >= 1
    /\ Cardinality(workers) >= 2
    /\ \E w \in workers : w.j > w.minRow
    /\ \E i \in DOMAIN prevOut : IsFinite(prevOut[i]) /\ ~IsZero(prevOut[i])

\* The main goroutine can go on, or a worker it waits for is still running.
NotBlocked ==
    \/ pc \in {"main", "loop", "copy"}
    \/ pc \in {"derive", "flow"} /\ (lower < PassRange[2] \/ WaitReturns(wg) \/ workers # {})

\* C4: for every iteration count K >= 0 and every rowsPerUnit >= 1 the call
\* runs exactly K sweeps, each followed by one copy of uv into uvOld, never
\* blocks for good before it returns, and returns uv as the K-th sweep left it.
C4_ExactlyKSweeps ==
    (numRowsPerGo >= 1 /\ iterations >= 0) =>
        /\ sweeps <= iterations
        /\ copies <= sweeps
        /\ sweeps <= copies + 1
        /\ pc = "loop" => (copies = sweeps /\ k = sweeps + 1)
        /\ pc = "done" => (sweeps = iterations /\ copies = iterations /\ heap["uv"] = prevOut)
        /\ pc # "done" => NotBlocked

\* The call returned after MaxIter sweeps.
C4_Witness == pc = "done" /\ iterations = MaxIter /\ sweeps = MaxIter /\ MaxIter >= 2

\* The cells of b on its 1-cell border.
BorderCells(b) == Cells(b) \ Cells(RealBounds(b))

\* C5: the flow field covers the input bounds without the 1-cell border, the
\* sweep addresses no border cell of the derivative field, and those cells
\* stay zero.
C5_InteriorOnly ==
    (pc \in {"loop", "flow", "copy", "done"}) =>
        /\ img["uv"].Rect = RealBounds(img["f1"].Rect)
        /\ derivsRead \cap BorderCells(img["derivs"].Rect) = {}
        /\ \A q \in BorderCells(img["derivs"].Rect), c \in 0 .. 2 :
              AtF(heap, img["derivs"], q[1], q[2], c) = Zero

AllZero(pix) == \A i \in DOMAIN pix : pix[i] = Zero

\* C6 as stated: f1 = f2 in every cell, alpha > 0 and K >= 1 give an all-zero
\* flow field.
C6_ZeroMotion ==
    (pc = "done" /\ heap["f1"] = heap["f2"] /\ AlphaPositive(alpha) /\ iterations >= 1)
        => AllZero(heap["uv"])

\* C6, amended: f1 = f2 in every cell and an alpha > 0 whose reciprocal is a
\* finite float32 keep uv and uvOld all-zero through every sweep, so the flow
\* field returned for K >= 1 is all-zero.
C6_ZeroMotionFiniteHelp ==
    (pc \in {"loop", "flow", "copy", "done"} /\ heap["f1"] = heap["f2"]
       /\ AlphaPositive(alpha) /\ IsFinite(Help(alpha)))
        => (AllZero(heap["uv"]) /\ AllZero(heap["uvOld"]))

\* Equal images with a bright pixel (so Fx # 0 somewhere), K >= 1, returned.
C6_Witness ==
    /\ pc = "done"
    /\ iterations >= 1
    /\ heap["f1"] = heap["f2"]
    /\ AlphaPositive(alpha) /\ IsFinite(Help(alpha))
    /\ \E i \in DOMAIN heap["derivs"] : ~IsZero(heap["derivs"][i])

\* C10: a non-positive alpha or a non-positive iteration count is rejected
\* before any computation: no band of a derivative pass or of a sweep is
\* started, and no flow field is returned.
C10_Rejected ==
    (~AlphaPositive(alpha) \/ iterations <= 0) =>
        (Len(bands) = 0 /\ sweeps = 0 /\ pc # "done")

\* C13: for every row an innerFlow goroutine is about to compute and every
\* cell of that row, the neighbour count nn is 2, 3 or 4, every neighbour read
\* is a cell of oldvec's bounds, and with alpha > 0 neither divisor is zero.
C13_NeighbourCount ==
    \A w \in workers :
        (w.fn = "innerFlow" /\ w.j < w.maxRow) =>
            LET b == img[w.vecField].Rect
            IN  \A i \in b.MinX .. b.MaxX - 1 :
                    LET ns == Neighbours(b, i, w.j)
                    IN  /\ Len(ns) \in 2 .. 4
                        /\ \A n \in 1 .. Len(ns) :
                              /\ PointIn(ns[n][1], ns[n][2], img[w.oldvec].Rect)
                              /\ AtFOk(heap, img[w.oldvec], ns[n][1], ns[n][2])
                        /\ AlphaPositive(alpha) =>
                              \A c \in 0 .. 1 :
                                  ~IsZero(FlowDivisor(heap, Help(alpha), img["derivs"],
                                                      Len(ns), i, w.j, c))

\* A goroutine of the second sweep is about to compute the first row (corner
\* cells, two neighbours) of a flow field that is no longer all zero, with
\* alpha > 0 and derivatives that are not all zero.
C13_Witness ==
    /\ sweeps >= 1
    /\ AlphaPositive(alpha) /\ IsFinite(Help(alpha))
    /\ \E i \in DOMAIN heap["derivs"] : ~IsZero(heap["derivs"][i])
    /\ \E i \in DOMAIN heap["uvOld"] : ~IsZero(heap["uvOld"][i])
    /\ \E w \in workers :
          /\ w.fn = "innerFlow" /\ w.j < w.maxRow
          /\ w.j = img[w.vecField].Rect.MinY
          /\ Len(Neighbours(img[w.vecField].Rect, img[w.vecField].Rect.MinX, w.j)) = 2

\* lower + rows is below the smallest int.
BandWraps(lo, rows) == rows < 0 /\ lo < MinInt - rows

C7_MirrorBorder ==
    LET p == img["p"]
        in == RealBounds(p.Rect)
    IN  (pc \in {"dummied", "panic"} /\ Dx(p.Rect) >= 3 /\ Dy(p.Rect) >= 3) =>
            /\ pc = "dummied"
            /\ \A q \in Cells(in), c \in 0 .. p.Chancnt - 1 :
                  /\ AtF(heap, p, q[1], q[2], c) = AtF(pre.heap, p, q[1], q[2], c)
                  /\ q[2] = in.MinY => AtF(heap, p, q[1], q[2] - 1, c) = AtF(heap, p, q[1], q[2], c)
                  /\ q[2] = in.MaxY - 1 => AtF(heap, p, q[1], q[2] + 1, c) = AtF(heap, p, q[1], q[2], c)
                  /\ q[1] = in.MinX => AtF(heap, p, q[1] - 1, q[2], c) = AtF(heap, p, q[1], q[2], c)
                  /\ q[1] = in.MaxX - 1 => AtF(heap, p, q[1] + 1, q[2], c) = AtF(heap, p, q[1], q[2], c)

\* Dummies returned on a two-channel ramp buffer at least 3 by 3.
C7_Witness ==
    /\ pc = "dummied"
    /\ Dx(img["p"].Rect) >= 3 /\ Dy(img["p"].Rect) >= 3
    /\ img["p"].Chancnt = 2
    /\ \A i \in DOMAIN pre.heap["p"] : ~IsZero(pre.heap["p"][i])

\* C8: after a write at (x, y, c) of the sub-view's bounds, through the
\* sub-view or through the owner, both read the written value at (x, y, c),
\* and every other cell and channel reads as before, through both.
C8_Aliasing ==
    pc = "wrote" =>
        /\ AtF(heap, img["p"], arg.x, arg.y, arg.c) = arg.val
        /\ AtF(heap, img["sub"], arg.x, arg.y, arg.c) = arg.val
        /\ \A n \in {"p", "sub"}, q \in Cells(img["p"].Rect), c \in 0 .. img["p"].Chancnt - 1 :
              (PointIn(q[1], q[2], img[n].Rect) /\ <<q[1], q[2], c>> # <<arg.x, arg.y, arg.c>>)
                  => AtF(heap, img[n], q[1], q[2], c) = AtF(pre.heap, img[n], q[1], q[2], c)

\* A write through a sub-view that starts inside the owner, away from the
\* sub-view's first cell, to the second channel.
C8_Witness ==
    /\ pc = "wrote"
    /\ arg.via = "sub"
    /\ img["sub"].off > 0
    /\ arg.c = 1
    /\ arg.x > img["sub"].Rect.MinX /\ arg.y > img["sub"].Rect.MinY

\* C9: after ScaleToUnsignedByte every value of a channel whose maximum was
\* zero is zero, and no value of the buffer is NaN or Inf.
C9_ZeroMaxGuarded ==
    pc = "scaled" =>
        /\ \A c \in 0 .. img["p"].Chancnt - 1 :
              ChanMax(pre.heap, img["p"], c, 1, NegMaxFloat32) = Zero
                  => \A q \in Cells(img["p"].Rect) : AtF(heap, img["p"], q[1], q[2], c) = Zero
        /\ \A i \in DOMAIN heap["p"] : IsFinite(heap["p"][i])

\* C11: Dummies on a buffer less than 3 wide or less than 3 high does not
\* fail, and the pass of a dimension with extent below 3 changes nothing: a
\* buffer less than 3 wide is left as it was, and in a buffer less than 3 high
\* every cell strictly between the first and the last column is left as it was.
C11_SmallNoOp ==
    LET p == img["p"]
        b == p.Rect
    IN  (pc \in {"dummied", "panic"} /\ (Dx(b) < 3 \/ Dy(b) < 3)) =>
            /\ pc = "dummied"
            /\ Dx(b) < 3 => heap = pre.heap
            /\ Dy(b) < 3 =>
                  \A x \in b.MinX + 1 .. b.MaxX - 2, y \in b.MinY .. b.MaxY - 1,
                     c \in 0 .. p.Chancnt - 1 :
                        AtF(heap, p, x, y, c) = AtF(pre.heap, p, x, y, c)

\* C12: after q.Copy(p) on a fresh buffer q of any area and channel count, q
\* has p's bounds, stride and channel count, every cell of p's bounds can be
\* read through q and holds, in every channel, the value it holds in p, and p
\* is as it was.
C12_CopyResizes ==
    LET p == img["p"]
        q == img["q"]
    IN  pc = "copied" =>
            /\ q.Rect = p.Rect /\ q.Stride = p.Stride /\ q.Chancnt = p.Chancnt
            /\ \A c \in Cells(p.Rect), ch \in 0 .. p.Chancnt - 1 :
                  /\ AtFOk(heap, q, c[1], c[2])
                  /\ AtF(heap, q, c[1], c[2], ch) = AtF(heap, p, c[1], c[2], ch)
            /\ heap["p"] = pre.heap["p"] /\ p = pre.img["p"]

====
